---------------------------- MODULE Spec2Model ----------------------------
(***************************************************************************)
(* A model of build.py: the static live-TV catalog builder.  One run reads *)
(* channels.json, normalizes every record, classifies it, and writes the   *)
(* manifest, the paginated catalogs and the per-channel documents.         *)
(*                                                                         *)
(* Python strings are TLA+ strings; they are taken apart with SubSeq and   *)
(* put together with \o, so every string function below is computed        *)
(* character by character the way the Python built-in computes it.         *)
(***************************************************************************)
EXTENDS Naturals, Sequences, FiniteSets, TLC

VARIABLES
  pc,         \* position of the run in main() / of the function under study
  top,        \* shape of the document read from channels.json
  channels,   \* the records of the input list read so far
  norm,       \* main: list of NormalizedChannels
  countries,  \* main: set of country codes observed
  skipped,    \* main: number of discarded records
  catalogs,   \* main: active categories, in CANON order
  manifest,   \* main: catalog ids / genres of the manifest once built
  ci,         \* main: number of catalogs already generated
  ei,         \* main: number of channels already emitted
  files,      \* the output tree: path -> document
  arg,        \* input of the function under study (paginate, canon_category)
  ret         \* result of the function under study

vars == <<pc, top, channels, norm, countries, skipped, catalogs, manifest,
          ci, ei, files, arg, ret>>

(***************************************************************************)
(* Bounds of the model.                                                    *)
(***************************************************************************)
MaxChannels == 3
MaxTotal == 301
MaxTokens == 2

(***************************************************************************)
(* Python str primitives.                                                  *)
(***************************************************************************)
\* The printable ASCII range without the double quote (34), the backslash (92)
\* and the grave accent (96), as runs of consecutive code points from base.
AsciiRuns ==
  << [base |-> 32, s |-> " !"],
     [base |-> 35, s |-> "#$%&'("],
     [base |-> 41, s |-> ")*+,-./0123456789:;<=>?@ABCDEFGHIJKLMNOPQRSTUVWXYZ["],
     [base |-> 93, s |-> "]^_"],
     [base |-> 97, s |-> "abcdefghijklmnopqrstuvwxyz{|}~"] >>

CharAt(s, i) == SubSeq(s, i, i)

IndexIn(s, c) == CHOOSE i \in 1..Len(s) : CharAt(s, i) = c

InRun(r, c) == \E i \in 1..Len(r.s) : CharAt(r.s, i) = c

\* ord(c), tabulated once
OrdTable ==
  [c \in UNION {{CharAt(AsciiRuns[k].s, i) : i \in 1..Len(AsciiRuns[k].s)} :
                 k \in 1..Len(AsciiRuns)} |->
     LET r == AsciiRuns[CHOOSE k \in 1..Len(AsciiRuns) : InRun(AsciiRuns[k], c)]
     IN r.base + IndexIn(r.s, c) - 1]

Ord(c) == OrdTable[c]

Chr(n) ==
  LET r == AsciiRuns[CHOOSE k \in 1..Len(AsciiRuns) :
                       n >= AsciiRuns[k].base /\ n < AsciiRuns[k].base + Len(AsciiRuns[k].s)]
  IN CharAt(r.s, n - r.base + 1)

OrdUpperA == Ord("A")

OrdUpperZ == Ord("Z")

OrdLowerA == Ord("a")

OrdLowerZ == Ord("z")

OrdDigit0 == Ord("0")

OrdDigit9 == Ord("9")

IsSpace(c) == c = " "

IsUpper(c) == Ord(c) >= OrdUpperA /\ Ord(c) <= OrdUpperZ

IsLower(c) == Ord(c) >= OrdLowerA /\ Ord(c) <= OrdLowerZ

IsDigit(c) == Ord(c) >= OrdDigit0 /\ Ord(c) <= OrdDigit9

\* \w of the re module, on the ASCII range
IsWord(c) == IsUpper(c) \/ IsLower(c) \/ IsDigit(c) \/ c = "_"

LowerChar(c) == IF IsUpper(c) THEN Chr(Ord(c) + (OrdLowerA - OrdUpperA)) ELSE c

UpperChar(c) == IF IsLower(c) THEN Chr(Ord(c) - (OrdLowerA - OrdUpperA)) ELSE c

RECURSIVE MapChars(_, _, _)
MapChars(s, i, kind) ==
  IF i > Len(s) THEN ""
  ELSE (IF kind = "lower" THEN LowerChar(CharAt(s, i)) ELSE UpperChar(CharAt(s, i)))
       \o MapChars(s, i + 1, kind)

lower(s) == MapChars(s, 1, "lower")

upper(s) == MapChars(s, 1, "upper")

RECURSIVE lstrip(_)
lstrip(s) == IF Len(s) > 0 /\ IsSpace(CharAt(s, 1)) THEN lstrip(SubSeq(s, 2, Len(s))) ELSE s

RECURSIVE rstrip(_)
rstrip(s) ==
  IF Len(s) > 0 /\ IsSpace(CharAt(s, Len(s))) THEN rstrip(SubSeq(s, 1, Len(s) - 1)) ELSE s

strip(s) == rstrip(lstrip(s))

RECURSIVE lstrip_hyphen(_)
lstrip_hyphen(s) ==
  IF Len(s) > 0 /\ CharAt(s, 1) = "-" THEN lstrip_hyphen(SubSeq(s, 2, Len(s))) ELSE s

RECURSIVE rstrip_hyphen(_)
rstrip_hyphen(s) ==
  IF Len(s) > 0 /\ CharAt(s, Len(s)) = "-"
  THEN rstrip_hyphen(SubSeq(s, 1, Len(s) - 1)) ELSE s

\* k in s
Contains(s, k) ==
  \E i \in 1..(Len(s) + 1) : i + Len(k) - 1 <= Len(s) /\ SubSeq(s, i, i + Len(k) - 1) = k

StartsWith(s, k) == Len(k) <= Len(s) /\ SubSeq(s, 1, Len(k)) = k

\* s.replace(old, new, 1): the leftmost occurrence only
replace1(s, old, new) ==
  IF ~Contains(s, old) THEN s
  ELSE LET i == CHOOSE j \in 1..(Len(s) + 1) :
                  /\ j + Len(old) - 1 <= Len(s)
                  /\ SubSeq(s, j, j + Len(old) - 1) = old
                  /\ \A h \in 1..(j - 1) : SubSeq(s, h, h + Len(old) - 1) # old
       IN SubSeq(s, 1, i - 1) \o new \o SubSeq(s, i + Len(old), Len(s))

\* a < b on str: lexicographic by code point
RECURSIVE StrLess(_, _)
StrLess(a, b) ==
  IF Len(b) = 0 THEN FALSE
  ELSE IF Len(a) = 0 THEN TRUE
  ELSE IF CharAt(a, 1) = CharAt(b, 1)
       THEN StrLess(SubSeq(a, 2, Len(a)), SubSeq(b, 2, Len(b)))
       ELSE Ord(CharAt(a, 1)) < Ord(CharAt(b, 1))

(***************************************************************************)
(* CANON and canon_category                                                *)
(***************************************************************************)
\* (id, display name); the separator dot of the display names is written " - "
CANON ==
  << <<"general", "En directo - Generalistas">>,
     <<"news", "En directo - Noticias">>,
     <<"sports", "En directo - Deportes">>,
     <<"events", "En directo - Eventos / Passes">>,
     <<"movies", "En directo - Cine / Series">>,
     <<"ent", "En directo - Entretenimiento">>,
     <<"docs", "En directo - Documentales">>,
     <<"kids", "En directo - Infantil">>,
     <<"other", "En directo - Otros">> >>

\* any(k in s for k in ks)
AnyIn(ks, s) == \E i \in 1..Len(ks) : Contains(s, ks[i])

\* mutant: the news test moved before the sports test
canon_category_news_first(raw) ==
  LET s == lower(strip(raw))
  IN IF AnyIn(<<"event", "pass", "ppv", "multipantalla">>, s) THEN "events"
     ELSE IF AnyIn(<<"noticia", "news", "econom">>, s) THEN "news"
     ELSE IF AnyIn(<<"deport", "sport">>, s) THEN "sports"
     ELSE IF AnyIn(<<"cine", "movie", "series", "hbo", "showtime", "cinemax", "max">>, s)
          THEN "movies"
     ELSE IF AnyIn(<<"entreten", "entertainment", "cable">>, s) THEN "ent"
     ELSE IF AnyIn(<<"document", "history", "discovery", "nat geo", "travel", "tlc">>, s)
          THEN "docs"
     ELSE IF AnyIn(<<"infantil", "kids", "disney", "nick">>, s) THEN "kids"
     ELSE IF AnyIn(<<"general", "abierta", "generalista">>, s) THEN "general"
     ELSE "other"

canon_category(raw) ==
  LET s == lower(strip(raw))
  IN IF AnyIn(<<"event", "pass", "ppv", "multipantalla">>, s) THEN "events"
     ELSE IF AnyIn(<<"deport", "sport">>, s) THEN "sports"
     ELSE IF AnyIn(<<"noticia", "news", "econom">>, s) THEN "news"
     ELSE IF AnyIn(<<"cine", "movie", "series", "hbo", "showtime", "cinemax", "max">>, s)
          THEN "movies"
     ELSE IF AnyIn(<<"entreten", "entertainment", "cable">>, s) THEN "ent"
     ELSE IF AnyIn(<<"document", "history", "discovery", "nat geo", "travel", "tlc">>, s)
          THEN "docs"
     ELSE IF AnyIn(<<"infantil", "kids", "disney", "nick">>, s) THEN "kids"
     ELSE IF AnyIn(<<"general", "abierta", "generalista">>, s) THEN "general"
     ELSE "other"

\* slugify
RECURSIVE DropNonSlug(_)
\* re.sub(r"[^\w\s-]", "", s)
DropNonSlug(s) ==
  IF Len(s) = 0 THEN ""
  ELSE LET c == CharAt(s, 1)
       IN (IF IsWord(c) \/ IsSpace(c) \/ c = "-" THEN c ELSE "")
          \o DropNonSlug(SubSeq(s, 2, Len(s)))

IsSep(c) == IsSpace(c) \/ c = "_" \/ c = "-"

RECURSIVE CollapseSeps(_)
\* re.sub(r"[\s_-]+", "-", s)
CollapseSeps(s) ==
  IF Len(s) = 0 THEN ""
  ELSE LET c == CharAt(s, 1)
           rest == SubSeq(s, 2, Len(s))
       IN IF IsSep(c)
          THEN (IF Len(rest) > 0 /\ IsSep(CharAt(rest, 1)) THEN "" ELSE "-")
               \o CollapseSeps(rest)
          ELSE c \o CollapseSeps(rest)

slugify(s0) ==
  LET s1 == lower(strip(s0))
      s2 == DropNonSlug(s1)
      s3 == rstrip_hyphen(lstrip_hyphen(CollapseSeps(s2)))
  IN IF s3 = "" THEN "item" ELSE s3

(***************************************************************************)
(* JSON values as json.loads returns them.  t is the Python type, s is     *)
(* str(value), l the elements of a list, d the items of a dict.            *)
(***************************************************************************)
NoItems == [k \in {} |-> ""]

Str(x) == [t |-> "str", s |-> x, l |-> << >>, d |-> NoItems]

Num(repr) == [t |-> "int", s |-> repr, l |-> << >>, d |-> NoItems]

None == [t |-> "NoneType", s |-> "None", l |-> << >>, d |-> NoItems]

List(items, repr) == [t |-> "list", s |-> repr, l |-> items, d |-> NoItems]

Dict(items, repr) == [t |-> "dict", s |-> repr, l |-> << >>, d |-> items]

\* bool(v)
Truthy(v) ==
  CASE v.t = "str" -> v.s # ""
    [] v.t = "int" -> v.s # "0"
    [] v.t = "list" -> v.l # << >>
    [] v.t = "dict" -> DOMAIN v.d # {}
    [] OTHER -> FALSE

\* a or b
Or(a, b) == IF Truthy(a) THEN a ELSE b

\* ch.get(k)
Get(ch, k) == IF k \in DOMAIN ch.d THEN ch.d[k] ELSE None

\* ch.get(k, default)
GetOr(ch, k, default) == IF k \in DOMAIN ch.d THEN ch.d[k] ELSE default

IsNonBlankStr(v) == v.t = "str" /\ strip(v.s) # ""

(***************************************************************************)
(* main: the helpers of the normalization loop                             *)
(***************************************************************************)
prefix == "live_"

RECURSIVE pick_str(_)
pick_str(vals) ==
  IF vals = << >> THEN ""
  ELSE IF IsNonBlankStr(Head(vals)) THEN strip(Head(vals).s)
  ELSE pick_str(Tail(vals))

extract_url(ch) ==
  LET u == Or(Get(ch, "url"), Or(Get(ch, "streamUrl"), Get(ch, "m3u8")))
      streams == Or(Get(ch, "streams"), Or(Get(ch, "stream"), Get(ch, "sources")))
  IN IF IsNonBlankStr(u) THEN strip(u.s)
     ELSE IF streams.t = "list" /\ streams.l # << >>
          THEN LET s0 == streams.l[1]
                   u2 == Or(Get(s0, "url"), Or(Get(s0, "streamUrl"), Get(s0, "m3u8")))
               IN IF s0.t = "dict" /\ IsNonBlankStr(u2) THEN strip(u2.s)
                  ELSE IF IsNonBlankStr(s0) THEN strip(s0.s)
                  ELSE ""
          ELSE ""

\* line 102
resolve_country(ch) ==
  LET c == upper(pick_str(<<Get(ch, "country"), Get(ch, "cc"), Get(ch, "countryCode")>>))
  IN IF c # "" THEN c ELSE "XX"

\* mutant: a synthesized id is not slugified again, its underscore survives
resolve_id_keep_underscore(ch, country, name) ==
  LET raw == Get(ch, "id")
  IN IF Truthy(raw) THEN prefix \o replace1(slugify(raw.s), prefix, "")
     ELSE prefix \o lower(country) \o "_" \o slugify(name)

\* lines 106-107
resolve_id(ch, country, name) ==
  LET raw == Get(ch, "id")
      cid == IF Truthy(raw) THEN raw.s ELSE lower(country) \o "_" \o slugify(name)
  IN prefix \o replace1(slugify(cid), prefix, "")

\* lines 91-119 for one record: kept tells whether it is appended to norm
normalize(ch) ==
  LET name == pick_str(<<Get(ch, "name"), Get(ch, "title"), Get(ch, "label"),
                         Get(ch, "channel")>>)
      url == extract_url(ch)
      country == resolve_country(ch)
      raw_cat == LET r == pick_str(<<Get(ch, "category"), Get(ch, "group"), Get(ch, "type")>>)
                 IN IF r # "" THEN r ELSE "other"
  IN IF ch.t # "dict" \/ name = "" \/ url = ""
     THEN [kept |-> FALSE]
     ELSE [kept |-> TRUE,
           x |-> [id |-> resolve_id(ch, country, name),
                  name |-> name,
                  country |-> country,
                  cat |-> canon_category(raw_cat),
                  logo |-> pick_str(<<Get(ch, "logo"), Get(ch, "poster"), Get(ch, "icon")>>),
                  desc |-> pick_str(<<Get(ch, "description"), Get(ch, "desc")>>),
                  url |-> url]]

(***************************************************************************)
(* The output tree and write_json.                                         *)
(***************************************************************************)
NoFiles == [p \in {} |-> ""]

write_json(fs, p, obj) == [q \in DOMAIN fs \cup {p} |-> IF q = p THEN obj ELSE fs[q]]

(***************************************************************************)
(* paginate                                                                *)
(***************************************************************************)
page == 100

Min(a, b) == IF a < b THEN a ELSE b

Max(a, b) == IF a > b THEN a ELSE b

\* metas[lo:hi]
Slice(s, lo, hi) == SubSeq(s, lo + 1, Min(hi, Len(s)))

\* math.ceil(a / b) for a, b > 0
Ceil(a, b) == (a + b - 1) \div b

\* range(page, total, page)
SkipRange(total) == {s \in page..Max(page, total) : s < total /\ s % page = 0}

SkipPath(base_dir, skip) == base_dir \o "/skip=" \o ToString(skip) \o ".json"

\* mutant: the next multiple after total, computed by floor division
terminal_skip_floor(total) == ((total \div page) + 1) * page

terminal_skip(total) == Ceil(Max(total, 1), page) * page

paginate(fs, base_file, base_dir, metas) ==
  LET total == Len(metas)
      fs1 == write_json(fs, base_file, [metas |-> Slice(metas, 0, page)])
      loop == {SkipPath(base_dir, s) : s \in SkipRange(total)}
      fs2 == [q \in DOMAIN fs1 \cup loop |->
                IF \E s \in SkipRange(total) : q = SkipPath(base_dir, s)
                THEN LET s == CHOOSE s \in SkipRange(total) : q = SkipPath(base_dir, s)
                     IN [metas |-> Slice(metas, s, s + page)]
                ELSE fs1[q]]
  IN write_json(fs2, SkipPath(base_dir, terminal_skip(total)), [metas |-> << >>])

(***************************************************************************)
(* main: manifest, catalogs and per-channel documents                      *)
(***************************************************************************)
out == "docs"

\* sorted(S) for a set of str
RECURSIVE sorted(_)
sorted(S) ==
  IF S = {} THEN << >>
  ELSE LET m == CHOOSE m \in S : \A o \in S : o = m \/ StrLess(m, o)
       IN <<m>> \o sorted(S \ {m})

\* the sort key of line 178: (country, name.lower())
KeyLess(a, b) ==
  \/ StrLess(a.country, b.country)
  \/ a.country = b.country /\ StrLess(lower(a.name), lower(b.name))

\* list.sort is stable: an element goes after the elements that are not greater
RECURSIVE InsertSorted(_, _)
InsertSorted(x, s) ==
  IF s = << >> THEN <<x>>
  ELSE IF KeyLess(x, Head(s)) THEN <<x>> \o s
  ELSE <<Head(s)>> \o InsertSorted(x, Tail(s))

RECURSIVE sort_channels(_)
sort_channels(s) ==
  IF s = << >> THEN << >>
  ELSE InsertSorted(s[Len(s)], sort_channels(SubSeq(s, 1, Len(s) - 1)))

\* urllib.parse.quote on the ASCII range: letters, digits and _.-~/ are kept
HexDigits == "0123456789ABCDEF"

QuoteChar(c) ==
  IF IsWord(c) \/ c = "." \/ c = "-" \/ c = "~" \/ c = "/" THEN c
  ELSE "%" \o CharAt(HexDigits, (Ord(c) \div 16) + 1) \o CharAt(HexDigits, (Ord(c) % 16) + 1)

RECURSIVE quote(_)
quote(s) == IF Len(s) = 0 THEN "" ELSE QuoteChar(CharAt(s, 1)) \o quote(SubSeq(s, 2, Len(s)))

\* lines 182-183
meta_stub(x) ==
  IF x.logo # ""
  THEN [type |-> "tv", id |-> x.id, name |-> x.name, genres |-> <<x.country>>,
        posterShape |-> "square", poster |-> x.logo]
  ELSE [type |-> "tv", id |-> x.id, name |-> x.name, genres |-> <<x.country>>,
        posterShape |-> "square"]

\* line 177
IsCat(x, cat_id) == x.cat = cat_id

cat_channels_of(nrm, cat_id) == SelectSeq(nrm, LAMBDA x : IsCat(x, cat_id))

\* lines 177-184
metas_of(nrm, cat_id) ==
  LET cs == sort_channels(cat_channels_of(nrm, cat_id))
  IN [i \in 1..Len(cs) |-> meta_stub(cs[i])]

\* mutant: the country filter forgotten
filter_genre_all(metas, ctry) == metas

\* line 192
filter_genre(metas, ctry) ==
  SelectSeq(metas, LAMBDA m : \E i \in 1..Len(m.genres) : m.genres[i] = ctry)

CatalogFile(catalog_id) == out \o "/catalog/tv/" \o catalog_id \o ".json"

CatalogDir(catalog_id) == out \o "/catalog/tv/" \o catalog_id

GenreFile(base_dir, ctry) == base_dir \o "/genre=" \o quote(ctry) \o ".json"

GenreDir(base_dir, ctry) == base_dir \o "/genre=" \o quote(ctry)

\* lines 191-195, for the countries cs in order
RECURSIVE paginate_genres(_, _, _, _)
paginate_genres(fs, base_dir, metas, cs) ==
  IF cs = << >> THEN fs
  ELSE paginate_genres(
         paginate(fs, GenreFile(base_dir, Head(cs)), GenreDir(base_dir, Head(cs)),
                  filter_genre(metas, Head(cs))),
         base_dir, metas, Tail(cs))

\* lines 176-195 for one category
write_catalog(fs, nrm, ctrs, cat_id) ==
  LET catalog_id == "live_" \o cat_id
      metas == metas_of(nrm, cat_id)
      base_dir == CatalogDir(catalog_id)
  IN paginate_genres(paginate(fs, CatalogFile(catalog_id), base_dir, metas),
                     base_dir, metas, sorted(ctrs))

\* mutant: the used categories listed in alphabetical order
active_catalogs_sorted(nrm) ==
  LET used == {nrm[i].cat : i \in 1..Len(nrm)}
      ids == sorted(used)
  IN [i \in 1..Len(ids) |-> CHOOSE c \in {CANON[k] : k \in 1..Len(CANON)} : c[1] = ids[i]]

\* lines 145-146
active_catalogs(nrm) ==
  LET used == {nrm[i].cat : i \in 1..Len(nrm)}
  IN SelectSeq(CANON, LAMBDA c : c[1] \in used)

\* lines 148-169
build_manifest(cats, ctrs) ==
  [id |-> "com.tuusuario.live",
   version |-> "1.0.0",
   name |-> "Mis Canales en Directo",
   description |-> "Canales en directo (estatico en GitHub Pages)",
   resources |-> <<"catalog", [name |-> "meta", types |-> <<"tv">>, idPrefixes |-> <<prefix>>],
                   "stream">>,
   types |-> <<"tv">>,
   catalogs |-> [i \in 1..Len(cats) |->
                   [type |-> "tv",
                    id |-> "live_" \o cats[i][1],
                    name |-> cats[i][2],
                    extra |-> <<[name |-> "genre"], [name |-> "skip"]>>,
                    genres |-> sorted(ctrs)]]]

MetaPath(id) == out \o "/meta/tv/" \o id \o ".json"

StreamPath(id) == out \o "/stream/tv/" \o id \o ".json"

\* lines 199-208
meta_doc(x) ==
  LET d == IF x.desc # "" THEN x.desc ELSE x.country
  IN IF x.logo # ""
     THEN [meta |-> [id |-> x.id, type |-> "tv", name |-> x.name, genres |-> <<x.country>>,
                     posterShape |-> "square", description |-> d,
                     poster |-> x.logo, logo |-> x.logo]]
     ELSE [meta |-> [id |-> x.id, type |-> "tv", name |-> x.name, genres |-> <<x.country>>,
                     posterShape |-> "square", description |-> d]]

\* lines 211-213
stream_doc(x) == [streams |-> <<[title |-> "Directo (HLS)", url |-> x.url]>>]

(***************************************************************************)
(* The inputs of a run of main.                                            *)
(***************************************************************************)
\* the documents channels.json may hold; the elements of a list are read one
\* by one in the normalization loop
TopDocs ==
  { List(<< >>, "[...]"),
    Dict([channels |-> List(<< >>, "[...]")], "{'channels': [...]}"),
    Dict([x |-> Num("1")], "{'x': 1}"),
    Dict([channels |-> Str("abc")], "{'channels': 'abc'}"),
    Dict([channels |-> Dict([a |-> Num("1")], "{'a': 1}")], "{'channels': {'a': 1}}"),
    Dict([channels |-> None], "{'channels': None}"),
    Str("abc"),
    Num("5"),
    None }

RawRecords ==
  { Dict([name |-> Str("Canal A"), url |-> Str("http://x/a.m3u8"), country |-> Str("es"),
          category |-> Str("Deportes")], "{...}"),
    Dict([title |-> Str("B"),
          streams |-> List(<<Dict([m3u8 |-> Str("http://y")], "{'m3u8': 'http://y'}")>>,
                           "[{'m3u8': 'http://y'}]")], "{...}"),
    Dict([id |-> Str("live_abc"), name |-> Str("A"), url |-> Str("u"),
          country |-> Str("Spain"), group |-> Str("News")], "{...}"),
    Dict([id |-> Str("abc"), name |-> Str("b"), url |-> Str("v"), cc |-> Str("ES"),
          category |-> Str("Sport"), logo |-> Str("l.png")], "{...}"),
    Dict([id |-> Str("abc"), name |-> Str("Dup"), url |-> Str("w"), country |-> Str("es"),
          category |-> Str("news"), description |-> Str("d")], "{...}"),
    Dict([name |-> Str("Zeta"), url |-> Str("z"), countryCode |-> Str("FR"),
          type |-> Str("Sports")], "{...}"),
    Dict([name |-> Str("A"), url |-> Str(" "), streamUrl |-> Str("http://x")], "{...}"),
    Dict([name |-> Str("NoUrl")], "{...}"),
    Str("notadict") }

\* the list main iterates over (lines 53-55), None when the run aborts
channels_of(doc) ==
  LET c == IF doc.t = "dict" THEN GetOr(doc, "channels", List(<< >>, "[]")) ELSE doc
  IN IF c.t = "list" THEN c ELSE None

\* whether the document holds a list whose elements are still to be read
HasRecords(doc) ==
  \/ doc.t = "list"
  \/ doc.t = "dict" /\ "channels" \in DOMAIN doc.d /\ doc.d["channels"].t = "list"

(***************************************************************************)
(* main                                                                    *)
(***************************************************************************)
Init ==
  /\ pc = "load"
  /\ top = None
  /\ channels = << >>
  /\ norm = << >>
  /\ countries = {}
  /\ skipped = 0
  /\ catalogs = << >>
  /\ manifest = << >>
  /\ ci = 0
  /\ ei = 0
  /\ files = NoFiles
  /\ arg = ""
  /\ ret = ""

\* lines 53-55
Load ==
  /\ pc = "load"
  /\ \E doc \in TopDocs :
       /\ top' = doc
       /\ IF channels_of(doc) = None
          THEN pc' = "fatal" /\ ret' = "channels.json debe ser array o {channels:[...]}"
          ELSE pc' = "normalize" /\ ret' = ret
  /\ UNCHANGED <<channels, norm, countries, skipped, catalogs, manifest, ci, ei, files, arg>>

\* lines 90-119, one iteration
Normalize ==
  /\ pc = "normalize"
  /\ HasRecords(top)
  /\ Len(channels) < MaxChannels
  /\ \E ch \in RawRecords :
       LET r == normalize(ch)
       IN /\ channels' = Append(channels, ch)
          /\ IF r.kept
             THEN /\ norm' = Append(norm, r.x)
                  /\ countries' = countries \cup {r.x.country}
                  /\ skipped' = skipped
             ELSE /\ skipped' = skipped + 1
                  /\ UNCHANGED <<norm, countries>>
  /\ UNCHANGED <<pc, top, catalogs, manifest, ci, ei, files, arg, ret>>

\* mutant: the loop left without the test of line 122
EndLoop_nocheck ==
  /\ pc = "normalize"
  /\ pc' = "manifest"
  /\ UNCHANGED <<top, channels, norm, countries, skipped, catalogs, manifest, ci, ei,
                 files, arg, ret>>

\* lines 121-123
EndLoop ==
  /\ pc = "normalize"
  /\ IF Len(norm) = 0
     THEN pc' = "fatal" /\ ret' = "No se parseo ningun canal."
     ELSE pc' = "manifest" /\ ret' = ret
  /\ UNCHANGED <<top, channels, norm, countries, skipped, catalogs, manifest, ci, ei,
                 files, arg>>

\* lines 145-172
WriteManifest ==
  /\ pc = "manifest"
  /\ catalogs' = active_catalogs(norm)
  /\ manifest' = build_manifest(catalogs', countries)
  /\ files' = write_json(write_json(files, out \o "/manifest.json", manifest'),
                         out \o "/.nojekyll", "")
  /\ ci' = 0
  /\ pc' = IF catalogs' = << >> THEN "emit" ELSE "catalogs"
  /\ UNCHANGED <<top, channels, norm, countries, skipped, ei, arg, ret>>

\* lines 175-195, one iteration
WriteCatalog ==
  /\ pc = "catalogs"
  /\ ci < Len(catalogs)
  /\ files' = write_catalog(files, norm, countries, catalogs[ci + 1][1])
  /\ ci' = ci + 1
  /\ pc' = IF ci' = Len(catalogs) THEN "emit" ELSE "catalogs"
  /\ UNCHANGED <<top, channels, norm, countries, skipped, catalogs, manifest, ei, arg, ret>>

\* lines 198-213, one iteration
EmitChannel ==
  /\ pc = "emit"
  /\ ei < Len(norm)
  /\ LET x == norm[ei + 1]
     IN files' = write_json(write_json(files, MetaPath(x.id), meta_doc(x)),
                            StreamPath(x.id), stream_doc(x))
  /\ ei' = ei + 1
  /\ pc' = IF ei' = Len(norm) THEN "done" ELSE "emit"
  /\ UNCHANGED <<top, channels, norm, countries, skipped, catalogs, manifest, ci, arg, ret>>

Next == Load \/ Normalize \/ EndLoop \/ WriteManifest \/ WriteCatalog \/ EmitChannel

Spec == Init /\ [][Next]_vars

(***************************************************************************)
(* Specification of paginate alone: any list of 0..MaxTotal entries.       *)
(***************************************************************************)
PagBaseFile == "docs/catalog/tv/live_x.json"

PagBaseDir == "docs/catalog/tv/live_x"

InitPaginate ==
  /\ pc = "call"
  /\ \E total \in 0..MaxTotal : arg = [i \in 1..total |-> i]
  /\ ret = ""
  /\ files = NoFiles
  /\ top = "" /\ channels = << >> /\ norm = << >> /\ countries = {}
  /\ skipped = 0 /\ catalogs = << >> /\ manifest = << >> /\ ci = 0 /\ ei = 0

Paginate ==
  /\ pc = "call"
  /\ files' = paginate(files, PagBaseFile, PagBaseDir, arg)
  /\ pc' = "done"
  /\ UNCHANGED <<top, channels, norm, countries, skipped, catalogs, manifest,
                 ci, ei, arg, ret>>

NextPaginate == Paginate

SpecPaginate == InitPaginate /\ [][NextPaginate]_vars

(***************************************************************************)
(* C1.  What a consumer finds after paginate(metas), stated from the page  *)
(* size alone.                                                             *)
(***************************************************************************)
PagTotal == Len(arg)

\* the positive multiples of the page size up to total + page
PagMultiples == {s \in 1..(PagTotal + page) : s % page = 0}

\* the continuation offsets: N <= s < total
PagOffsets == {s \in PagMultiples : s < PagTotal}

\* the first multiple of N that is >= total, N when total = 0
PagTerminal ==
  IF PagTotal = 0 THEN page
  ELSE CHOOSE m \in PagMultiples :
         m >= PagTotal /\ \A k \in PagMultiples : k >= PagTotal => m <= k

\* ceil(total / N) as the least k with k * N >= total
PagCeil == CHOOSE k \in 0..(PagTotal + 1) :
             k * page >= PagTotal /\ \A j \in 0..(PagTotal + 1) : j * page >= PagTotal => k <= j

PagPathOf(s) == IF s = 0 THEN PagBaseFile ELSE SkipPath(PagBaseDir, s)

\* the list a consumer gets by following skip = 0, N, 2N, ... up to the first
\* empty page; a page that is missing reads as the entry 0, which no list has
RECURSIVE PagRead(_)
PagRead(s) ==
  IF PagPathOf(s) \notin DOMAIN files THEN <<0>>
  ELSE IF files[PagPathOf(s)].metas = << >> THEN << >>
  ELSE files[PagPathOf(s)].metas \o PagRead(s + page)

\* C1: paginate writes exactly the base page with entries [0,N), one page
\* skip=s with entries [s,s+N) for every multiple s of N with N <= s < total,
\* and one empty page at the first multiple of N >= total (N when total = 0);
\* ceil(total/N) pages are non-empty and the pages read in skip order give
\* back the list.
C1_PaginatePages ==
  pc = "done" =>
    /\ DOMAIN files = {PagBaseFile} \cup {SkipPath(PagBaseDir, s) : s \in PagOffsets}
                         \cup {SkipPath(PagBaseDir, PagTerminal)}
    /\ files[PagBaseFile].metas = [i \in 1..Min(page, PagTotal) |-> arg[i]]
    /\ \A s \in PagOffsets :
         files[SkipPath(PagBaseDir, s)].metas = [i \in 1..Min(page, PagTotal - s) |-> arg[s + i]]
    /\ files[SkipPath(PagBaseDir, PagTerminal)].metas = << >>
    /\ SkipPath(PagBaseDir, PagTerminal) \notin {SkipPath(PagBaseDir, s) : s \in PagOffsets}
    /\ Cardinality({p \in DOMAIN files : files[p].metas # << >>}) = PagCeil
    /\ PagRead(0) = arg

\* the 250-entry example: pages of 100, 100, 50 and the empty page skip=300
C1_Witness ==
  /\ pc = "done"
  /\ PagTotal = 250
  /\ Len(files[PagBaseFile].metas) = 100
  /\ Len(files[SkipPath(PagBaseDir, 200)].metas) = 50
  /\ files[SkipPath(PagBaseDir, 300)].metas = << >>

(***************************************************************************)
(* Specification of canon_category alone: labels made of the keywords and  *)
(* of a few words in mixed case, up to MaxTokens words per label.          *)
(***************************************************************************)
CanonWords ==
  { "Sport", "NEWS", "Event", "max", "Cable", "nat", "geo", "Kids", "General",
    "Otros", "Deportes", "Cine", "Documentales", "TV" }

CanonKeywords ==
  { "event", "pass", "ppv", "multipantalla", "deport", "sport", "noticia", "news",
    "econom", "cine", "movie", "series", "hbo", "showtime", "cinemax", "max",
    "entreten", "entertainment", "cable", "document", "history", "discovery",
    "nat geo", "travel", "tlc", "infantil", "kids", "disney", "nick", "general",
    "abierta", "generalista" }

RECURSIVE LabelsOf(_)
LabelsOf(n) ==
  IF n = 0 THEN {""}
  ELSE LabelsOf(n - 1) \cup {a \o " " \o w : a \in LabelsOf(n - 1), w \in CanonWords}

CanonLabels == CanonKeywords \cup LabelsOf(MaxTokens)

InitCanon ==
  /\ pc = "call"
  /\ arg \in CanonLabels
  /\ ret = ""
  /\ files = NoFiles
  /\ top = "" /\ channels = << >> /\ norm = << >> /\ countries = {}
  /\ skipped = 0 /\ catalogs = << >> /\ manifest = << >> /\ ci = 0 /\ ei = 0

Classify ==
  /\ pc = "call"
  /\ ret' = canon_category(arg)
  /\ pc' = "done"
  /\ UNCHANGED <<top, channels, norm, countries, skipped, catalogs, manifest,
                 ci, ei, files, arg>>

NextCanon == Classify

SpecCanon == InitCanon /\ [][NextCanon]_vars

(***************************************************************************)
(* C8.  The keyword table in the order in which the groups are tried.      *)
(***************************************************************************)
KeywordGroups ==
  << [cat |-> "events",  keys |-> {"event", "pass", "ppv", "multipantalla"}],
     [cat |-> "sports",  keys |-> {"deport", "sport"}],
     [cat |-> "news",    keys |-> {"noticia", "news", "econom"}],
     [cat |-> "movies",  keys |-> {"cine", "movie", "series", "hbo", "showtime", "cinemax", "max"}],
     [cat |-> "ent",     keys |-> {"entreten", "entertainment", "cable"}],
     [cat |-> "docs",    keys |-> {"document", "history", "discovery", "nat geo", "travel", "tlc"}],
     [cat |-> "kids",    keys |-> {"infantil", "kids", "disney", "nick"}],
     [cat |-> "general", keys |-> {"general", "abierta", "generalista"}] >>

GroupMatches(g, label) == \E k \in KeywordGroups[g].keys : Contains(label, k)

FirstMatch(label) ==
  IF \E g \in 1..Len(KeywordGroups) : GroupMatches(g, label)
  THEN KeywordGroups[CHOOSE g \in 1..Len(KeywordGroups) :
                       /\ GroupMatches(g, label)
                       /\ \A h \in 1..(g - 1) : ~GroupMatches(h, label)].cat
  ELSE "other"

CanonTags == {CANON[i][1] : i \in 1..Len(CANON)}

\* C8: canon_category returns the category of the earliest keyword group, in
\* the order events, sports, news, movies, ent, docs, kids, general, that has
\* a keyword inside the trimmed lowercased label, and "other" when no group
\* has one; a label of the sports and the news group (and of no earlier
\* group) is sports; the result is one of the 9 canonical tags.
C8_FirstMatchWins ==
  pc = "done" =>
    LET label == lower(strip(arg))
    IN /\ ret = FirstMatch(label)
       /\ ret \in CanonTags
       /\ Cardinality(CanonTags) = 9
       /\ (GroupMatches(2, label) /\ GroupMatches(3, label) /\ ~GroupMatches(1, label))
             => ret = "sports"

\* a label of both the sports and the news group has been classified
C8_Witness ==
  /\ pc = "done"
  /\ arg = " NEWS Sport"
  /\ ret = "sports"

(***************************************************************************)
(* Specification of the normalization of one record: the record is put     *)
(* together from one choice per field group.                               *)
(***************************************************************************)
Merge(f, g) == [k \in DOMAIN f \cup DOMAIN g |-> IF k \in DOMAIN f THEN f[k] ELSE g[k]]

NameChoices ==
  { NoItems,
    [name |-> Str("Canal A")],
    [title |-> Str("B")],
    [name |-> Str("  "), label |-> Str("L")],
    [name |-> Num("5"), channel |-> Str("Ch")] }

UrlChoices ==
  { NoItems,
    [url |-> Str("http://x/a.m3u8")],
    [url |-> Str(" "), streamUrl |-> Str("http://x")],
    [url |-> Num("5"), streamUrl |-> Str("http://x")],
    [url |-> Str(""), m3u8 |-> Str(" http://m ")],
    [url |-> Num("5"), streams |-> List(<<Str("http://s")>>, "['http://s']")],
    [streams |-> List(<<Dict([m3u8 |-> Str("http://y")], "{'m3u8': 'http://y'}")>>,
                      "[{'m3u8': 'http://y'}]")],
    [streams |-> List(<<Dict([url |-> Str(" "), streamUrl |-> Str("http://z")],
                             "{'url': ' ', 'streamUrl': 'http://z'}")>>,
                      "[{'url': ' ', 'streamUrl': 'http://z'}]")],
    [stream |-> List(<<Str("http://s")>>, "['http://s']")],
    [streams |-> Str("zz"), sources |-> List(<<Str("http://q")>>, "['http://q']")],
    [streams |-> List(<< >>, "[]"), sources |-> List(<<Str("http://q")>>, "['http://q']")],
    [streams |-> List(<<Num("5")>>, "[5]")] }

CountryChoices ==
  { NoItems,
    [country |-> Str("es")],
    [cc |-> Str("ES")],
    [country |-> Str("Spain")],
    [countryCode |-> Str(" fr ")],
    [country |-> Str(""), cc |-> Str("e")] }

IdChoices ==
  { NoItems,
    [id |-> Str("abc")],
    [id |-> Str("live_abc")],
    [id |-> Str("Live_ABC")],
    [id |-> Str("live_live_x")],
    [id |-> Num("7")],
    [id |-> Num("0")],
    [id |-> Str("")] }

CategoryChoices == { NoItems, [category |-> Str("Deportes")], [type |-> Str("Noticias")] }

RecordInputs ==
  { Dict(Merge(n, Merge(u, Merge(c, Merge(i, g)))), "{...}") :
      n \in NameChoices, u \in UrlChoices, c \in CountryChoices, i \in IdChoices,
      g \in CategoryChoices }
  \cup { Str("notadict"), Num("5"), None }

InitRecord ==
  /\ pc = "call"
  /\ arg \in RecordInputs
  /\ ret = [kept |-> FALSE]
  /\ files = NoFiles
  /\ top = "" /\ channels = << >> /\ norm = << >> /\ countries = {}
  /\ skipped = 0 /\ catalogs = << >> /\ manifest = << >> /\ ci = 0 /\ ei = 0

NormalizeOne ==
  /\ pc = "call"
  /\ ret' = normalize(arg)
  /\ pc' = "done"
  /\ UNCHANGED <<top, channels, norm, countries, skipped, catalogs, manifest,
                 ci, ei, files, arg>>

NextRecord == NormalizeOne

SpecRecord == InitRecord /\ [][NextRecord]_vars

(***************************************************************************)
(* Reading a paginated catalog back from the output tree.                  *)
(***************************************************************************)
PagePath(base_file, base_dir, s) == IF s = 0 THEN base_file ELSE SkipPath(base_dir, s)

\* the entries found by following skip = 0, N, 2N, ... up to the first empty
\* (or missing) page
RECURSIVE ReadFrom(_, _, _, _)
ReadFrom(fs, base_file, base_dir, s) ==
  LET p == PagePath(base_file, base_dir, s)
  IN IF p \notin DOMAIN fs THEN << >>
     ELSE IF fs[p].metas = << >> THEN << >>
     ELSE fs[p].metas \o ReadFrom(fs, base_file, base_dir, s + page)

\* the chain of pages ends with an empty page that exists
RECURSIVE Terminated(_, _, _, _)
Terminated(fs, base_file, base_dir, s) ==
  LET p == PagePath(base_file, base_dir, s)
  IN /\ p \in DOMAIN fs
     /\ (fs[p].metas = << >> \/ Terminated(fs, base_file, base_dir, s + page))

UnfilteredOf(cat_id) ==
  ReadFrom(files, CatalogFile("live_" \o cat_id), CatalogDir("live_" \o cat_id), 0)

FilteredOf(cat_id, ctry) ==
  ReadFrom(files, GenreFile(CatalogDir("live_" \o cat_id), ctry),
           GenreDir(CatalogDir("live_" \o cat_id), ctry), 0)

\* C7: for every generated category and every observed country, the
\* country-filtered catalog read in skip order is the unfiltered catalog of
\* that category restricted to the entries of that country, in the same
\* order; the unfiltered catalog holds entries of that category only.
C7_CountryFilter ==
  pc \in {"catalogs", "emit", "done"} =>
    \A k \in 1..ci : \A ctry \in countries :
      LET cat_id == catalogs[k][1]
          dir == CatalogDir("live_" \o cat_id)
          all == UnfilteredOf(cat_id)
          sub == FilteredOf(cat_id, ctry)
      IN /\ Terminated(files, CatalogFile("live_" \o cat_id), dir, 0)
         /\ Terminated(files, GenreFile(dir, ctry), GenreDir(dir, ctry), 0)
         /\ sub = SelectSeq(all, LAMBDA m : m.genres = <<ctry>>)
         /\ \A i \in 1..Len(sub) : sub[i].genres = <<ctry>>
         /\ \A i \in 1..Len(all) :
              \E j \in 1..Len(norm) :
                /\ norm[j].cat = cat_id
                /\ norm[j].id = all[i].id
                /\ norm[j].name = all[i].name
                /\ <<norm[j].country>> = all[i].genres

\* a finished run in which a country selects two of the three entries of sports
C7_Witness ==
  /\ pc = "done"
  /\ Len(UnfilteredOf("sports")) = 3
  /\ Len(FilteredOf("sports", "ES")) = 2
  /\ Len(FilteredOf("sports", "FR")) = 1

(***************************************************************************)
(* C9.  The canonical order of the categories.                             *)
(***************************************************************************)
CanonOrder == <<"general", "news", "sports", "events", "movies", "ent", "docs", "kids", "other">>

CanonPos(catalog_id) == CHOOSE k \in 1..Len(CanonOrder) : "live_" \o CanonOrder[k] = catalog_id

ActiveCats == {c \in {CanonOrder[k] : k \in 1..Len(CanonOrder)} :
                 \E j \in 1..Len(norm) : norm[j].cat = c}

CatalogPrefix == "docs/catalog/tv/"

\* C9: the manifest lists exactly one descriptor live_<category> per category
\* that has a normalized channel and none for the others, in the canonical
\* order general, news, sports, events, movies, ent, docs, kids, other;
\* catalog files exist only for those categories.
C9_ManifestCatalogs ==
  pc \in {"catalogs", "emit", "done"} =>
    LET descs == manifest.catalogs
    IN /\ \A k \in 1..Len(CanonOrder) :
            Cardinality({i \in 1..Len(descs) : descs[i].id = "live_" \o CanonOrder[k]})
              = IF CanonOrder[k] \in ActiveCats THEN 1 ELSE 0
       /\ Len(descs) = Cardinality(ActiveCats)
       /\ \A i \in 1..Len(descs) : \A j \in 1..Len(descs) :
            i < j => CanonPos(descs[i].id) < CanonPos(descs[j].id)
       /\ files["docs/manifest.json"].catalogs = descs
       /\ \A p \in DOMAIN files :
            StartsWith(p, CatalogPrefix) =>
              \E c \in ActiveCats :
                \/ p = CatalogPrefix \o "live_" \o c \o ".json"
                \/ StartsWith(p, CatalogPrefix \o "live_" \o c \o "/")
       /\ pc \in {"emit", "done"} =>
            \A c \in ActiveCats : (CatalogPrefix \o "live_" \o c \o ".json") \in DOMAIN files

\* a finished run whose input has an "other" record before a sports and a news record
C9_Witness ==
  /\ pc = "done"
  /\ Len(norm) = 3
  /\ norm[1].cat = "other" /\ norm[2].cat = "sports" /\ norm[3].cat = "news"
  /\ Len(manifest.catalogs) = 3
  /\ manifest.catalogs[1].id = "live_news"
  /\ manifest.catalogs[3].id = "live_other"

(***************************************************************************)
(* C6.  Aborted runs write nothing.                                        *)
(***************************************************************************)
\* C6: a run whose document is neither an array nor an object with a channels
\* array, and a run in which no record normalizes, never gets past the
\* normalization loop and ends in the fatal exit with no file written; files
\* are written only in runs with at least one NormalizedChannel.
C6_NoOutputOnAbort ==
  /\ pc \in {"load", "normalize", "fatal", "manifest", "catalogs", "emit", "done"}
  /\ pc = "fatal" => DOMAIN files = {}
  /\ DOMAIN files # {} => Len(norm) >= 1
  /\ pc \in {"manifest", "catalogs", "emit", "done"} => Len(norm) >= 1 /\ HasRecords(top)
  /\ (pc # "load" /\ ~HasRecords(top)) =>
       pc \in {"normalize", "fatal"} /\ norm = << >> /\ DOMAIN files = {}

\* a run aborted after every record of a non-empty list was discarded
C6_Witness ==
  /\ pc = "fatal"
  /\ HasRecords(top)
  /\ Len(channels) = 2
  /\ skipped = 2
  /\ DOMAIN files = {}

(***************************************************************************)
(* Claims the code does not meet.                                          *)
(***************************************************************************)
MetaFiles == {p \in DOMAIN files : StartsWith(p, "docs/meta/tv/")}

StreamFiles == {p \in DOMAIN files : StartsWith(p, "docs/stream/tv/")}

\* C2: the ids of the normalized channels are pairwise different, so a
\* finished run has as many meta documents and as many stream documents as
\* normalized channels.
C2_UniqueIds ==
  pc = "done" =>
    /\ \A i \in 1..Len(norm) : \A j \in 1..Len(norm) : i # j => norm[i].id # norm[j].id
    /\ Cardinality(MetaFiles) = Len(norm)
    /\ Cardinality(StreamFiles) = Len(norm)

\* C5: the country of every normalized channel, and every genre of the
\* manifest, is a 2-character uppercase code (the sentinel XX included).
C5_CountryTwoChars ==
  /\ \A i \in 1..Len(norm) :
       Len(norm[i].country) = 2 /\ upper(norm[i].country) = norm[i].country
  /\ \A c \in countries : Len(c) = 2

CanalA ==
  Dict([name |-> Str("Canal A"), url |-> Str("http://x/a.m3u8"), country |-> Str("es"),
        category |-> Str("Deportes")], "{...}")

\* C10 as stated: a record without an id field gets the id prefix + lowercase
\* country + "_" + slugify(name); the one-record input Canal A gives one
\* catalog, live_sports, whose single page has the one entry live_es_canal-a
\* with genres ["ES"].
C10_SynthesizedId ==
  pc = "done" =>
    /\ Len(norm) = Len(channels) =>
         \A i \in 1..Len(norm) :
           "id" \notin DOMAIN channels[i].d =>
             norm[i].id = prefix \o lower(norm[i].country) \o "_" \o slugify(norm[i].name)
    /\ channels = <<CanalA>> =>
         /\ Len(manifest.catalogs) = 1
         /\ manifest.catalogs[1].id = "live_sports"
         /\ Len(UnfilteredOf("sports")) = 1
         /\ UnfilteredOf("sports")[1].id = "live_es_canal-a"
         /\ UnfilteredOf("sports")[1].genres = <<"ES">>

\* C10 (amended): a record without an id field gets the id prefix +
\* slugify(lowercase country + "_" + slugify(name)), in which the underscore
\* has become a hyphen; the one-record input Canal A gives one catalog,
\* live_sports, whose single page has the one entry live_es-canal-a with
\* genres ["ES"].
C10_SlugifiedId ==
  pc = "done" =>
    /\ Len(norm) = Len(channels) =>
         \A i \in 1..Len(norm) :
           "id" \notin DOMAIN channels[i].d =>
             /\ norm[i].id
                  = prefix \o slugify(lower(norm[i].country) \o "_" \o slugify(norm[i].name))
             /\ ~Contains(SubSeq(norm[i].id, Len(prefix) + 1, Len(norm[i].id)), "_")
    /\ channels = <<CanalA>> =>
         /\ Len(manifest.catalogs) = 1
         /\ manifest.catalogs[1].id = "live_sports"
         /\ DOMAIN files =
              { "docs/manifest.json", "docs/.nojekyll",
                "docs/catalog/tv/live_sports.json",
                "docs/catalog/tv/live_sports/skip=100.json",
                "docs/catalog/tv/live_sports/genre=ES.json",
                "docs/catalog/tv/live_sports/genre=ES/skip=100.json",
                "docs/meta/tv/live_es-canal-a.json",
                "docs/stream/tv/live_es-canal-a.json" }
         /\ Len(UnfilteredOf("sports")) = 1
         /\ UnfilteredOf("sports")[1].id = "live_es-canal-a"
         /\ UnfilteredOf("sports")[1].genres = <<"ES">>

\* the finished run of the one-record input Canal A
C10_Witness ==
  /\ pc = "done"
  /\ channels = <<CanalA>>
  /\ Len(norm) = 1
  /\ norm[1].id = "live_es-canal-a"
  /\ files["docs/stream/tv/live_es-canal-a.json"].streams[1].url = "http://x/a.m3u8"

IdOf(ch) == ch.d["id"].s

WithId(ch, s) == Dict([k \in DOMAIN ch.d |-> IF k = "id" THEN Str(s) ELSE ch.d[k]], ch.s)

\* C3: a record whose id field already starts with live_ gets the id of the
\* same record with that leading prefix removed, and the id holds the prefix
\* once.
C3_NoDoublePrefix ==
  (pc = "done" /\ ret.kept /\ arg.t = "dict" /\ "id" \in DOMAIN arg.d
     /\ arg.d["id"].t = "str" /\ StartsWith(IdOf(arg), prefix)) =>
    LET bare == SubSeq(IdOf(arg), Len(prefix) + 1, Len(IdOf(arg)))
        rest == SubSeq(ret.x.id, Len(prefix) + 1, Len(ret.x.id))
    IN /\ ret.x.id = normalize(WithId(arg, bare)).x.id
       /\ StartsWith(ret.x.id, prefix)
       /\ ~StartsWith(rest, prefix)

\* the url candidates of a record in priority order
NestedCandidates(v) ==
  IF v.t = "list" /\ v.l # << >>
  THEN IF v.l[1].t = "dict"
       THEN <<Get(v.l[1], "url"), Get(v.l[1], "streamUrl"), Get(v.l[1], "m3u8")>>
       ELSE <<v.l[1]>>
  ELSE << >>

UrlCandidates(ch) ==
  <<Get(ch, "url"), Get(ch, "streamUrl"), Get(ch, "m3u8")>>
    \o NestedCandidates(Get(ch, "streams"))
    \o NestedCandidates(Get(ch, "stream"))
    \o NestedCandidates(Get(ch, "sources"))

FirstNonBlank(vals) ==
  IF \E i \in 1..Len(vals) : IsNonBlankStr(vals[i])
  THEN strip(vals[CHOOSE i \in 1..Len(vals) :
                    IsNonBlankStr(vals[i]) /\ \A h \in 1..(i - 1) : ~IsNonBlankStr(vals[h])].s)
  ELSE ""

HasName(ch) ==
  \E k \in {"name", "title", "label", "channel"} : IsNonBlankStr(Get(ch, k))

\* C4: the url of a mapping is its first candidate, in the order url,
\* streamUrl, m3u8, first element of streams / stream / sources, that is a
\* non-blank string; a record with a name is discarded only when no candidate
\* is one.
C4_FirstNonBlankUrl ==
  (pc = "done" /\ arg.t = "dict") =>
    /\ ret.kept => ret.x.url = FirstNonBlank(UrlCandidates(arg))
    /\ (HasName(arg) /\ ~ret.kept) => FirstNonBlank(UrlCandidates(arg)) = ""

=============================================================================
